---- MODULE Spec2Model ----
(***************************************************************************)
(* Model of gihyo_sd_to_kindle.py: one run of main() after another, with   *)
(* the two files that survive a run (work/last_sent.txt and storage.json). *)
(*                                                                         *)
(* Text is a sequence of one-character strings.  The module is ASCII, so   *)
(* three characters of the titles are written with stand-ins:              *)
(*     "Y" is U+5E74 (year),  "M" is U+6708 (month),  "G" is U+53F7 (issue)*)
(* "K" stands for a run of text that normalize() maps onto the keyword     *)
(* "software design", "X" for any other text, " " for whitespace.          *)
(***************************************************************************)
EXTENDS Integers, Sequences, FiniteSets, TLC

VARIABLES
    marker,         \* work/last_sent.txt: [exists, text]
    storage,        \* storage.json exists
    lastMarked,     \* history: tag of the last mark_sent that returned, until another delivery
    pc,             \* position of main()
    err,            \* which call raised out of main(), "none" while none did
    marker0,        \* history: marker at the start of the run
    storage0,       \* history: storage at the start of the run
    loginLog,       \* history: results of the login_gihyo calls of the run, kept
                    \* until the discovery has selected an issue
    base,           \* index into my_candidates
    discovered,     \* history: found_items in discovery order
    found_items,    \* found_items after the sort
    detail_url,
    issue_tag,
    download_hint,
    downloaded,     \* history: download_asset was called
    epub_path,      \* [suffix, size] of the file download_asset returned
    emailSent,      \* history: send_to_kindle returned
    ctxOpen,        \* browser context not closed
    browserOpen     \* browser not closed

vars == <<marker, storage, lastMarked, pc, err, marker0, storage0, loginLog, base,
          discovered, found_items, detail_url, issue_tag, download_hint, downloaded,
          epub_path, emailSent, ctxOpen, browserOpen>>

-----------------------------------------------------------------------------
(* Bounds *)

MaxItems == 3       \* entries of one listing page, where the selection is checked
RunItems == 1       \* entries of one listing page, in the runs of main
MaxLinks == 2       \* links of a detail page or of the modal

-----------------------------------------------------------------------------
(* Text helpers *)

Digits == {"0", "1", "2", "3", "4", "5", "6", "7", "8", "9"}

DigitVal(c) ==
    CASE c = "0" -> 0 [] c = "1" -> 1 [] c = "2" -> 2 [] c = "3" -> 3 [] c = "4" -> 4
      [] c = "5" -> 5 [] c = "6" -> 6 [] c = "7" -> 7 [] c = "8" -> 8 [] c = "9" -> 9

RECURSIVE LStrip(_)
LStrip(s) == IF s # <<>> /\ Head(s) = " " THEN LStrip(Tail(s)) ELSE s

RECURSIVE RStrip(_)
RStrip(s) == IF s # <<>> /\ s[Len(s)] = " " THEN RStrip(SubSeq(s, 1, Len(s) - 1)) ELSE s

\* str.strip()
Strip(s) == RStrip(LStrip(s))

\* position of the first non-whitespace character at or after i (Len(s)+1 if none): \s*
RECURSIVE SkipWs(_, _)
SkipWs(s, i) == IF i <= Len(s) /\ s[i] = " " THEN SkipWs(s, i + 1) ELSE i

-----------------------------------------------------------------------------
(* score_by_issue: re.search(r"(20\d{2})\s*Y\s*(1?\d)\s*M", s) *)

NoMatch == <<0, 0>>

\* the match of the pattern that starts at position i, NoMatch if there is none
MatchAt(s, i) ==
    IF ~(i + 3 <= Len(s) /\ s[i] = "2" /\ s[i + 1] = "0"
         /\ s[i + 2] \in Digits /\ s[i + 3] \in Digits)
    THEN NoMatch
    ELSE LET year == 2000 + 10 * DigitVal(s[i + 2]) + DigitVal(s[i + 3])
             j == SkipWs(s, i + 4)
         IN  IF ~(j <= Len(s) /\ s[j] = "Y") THEN NoMatch
             ELSE LET k  == SkipWs(s, j + 1)
                      m2 == SkipWs(s, k + 2)
                      m1 == SkipWs(s, k + 1)
                  IN  IF k + 1 <= Len(s) /\ s[k] = "1" /\ s[k + 1] \in Digits
                         /\ m2 <= Len(s) /\ s[m2] = "M"
                      THEN <<year, 10 + DigitVal(s[k + 1])>>
                      ELSE IF k <= Len(s) /\ s[k] \in Digits
                              /\ m1 <= Len(s) /\ s[m1] = "M"
                      THEN <<year, DigitVal(s[k])>>
                      ELSE NoMatch

RECURSIVE SearchFrom(_, _)
SearchFrom(s, i) ==
    IF i > Len(s) THEN NoMatch
    ELSE IF MatchAt(s, i) # NoMatch THEN MatchAt(s, i)
    ELSE SearchFrom(s, i + 1)

score_by_issue(s) == SearchFrom(s, 1)

\* a comparison that looks at the year only
TupleLessYearOnly(a, b) == a[1] < b[1]

\* tuple comparison a < b
TupleLess(a, b) == a[1] < b[1] \/ (a[1] = b[1] /\ a[2] < b[2])

\* list.sort(key=score_by_issue(title), reverse=True): stable, descending
RECURSIVE InsertDesc(_, _)
InsertDesc(sorted, it) ==
    IF sorted = <<>> THEN <<it>>
    ELSE IF TupleLess(score_by_issue(Head(sorted).title), score_by_issue(it.title))
    THEN <<it>> \o sorted
    ELSE <<Head(sorted)>> \o InsertDesc(Tail(sorted), it)

RECURSIVE SortFrom(_, _)
SortFrom(sorted, rest) ==
    IF rest = <<>> THEN sorted ELSE SortFrom(InsertDesc(sorted, Head(rest)), Tail(rest))

SortItems(items) == SortFrom(<<>>, items)

-----------------------------------------------------------------------------
(* Pages the portal can serve *)

RECURSIVE SeqsUpTo(_, _)
SeqsUpTo(S, n) ==
    IF n = 0 THEN {<<>>}
    ELSE LET shorter == SeqsUpTo(S, n - 1)
         IN  shorter \cup {Append(q, x) : q \in {r \in shorter : Len(r) = n - 1}, x \in S}

Range(s) == {s[i] : i \in 1..Len(s)}

RawTexts ==
    { <<"K", " ", "2", "0", "2", "4", "Y", "3", "M", "G">>,
      <<" ", "K", " ", "2", "0", "2", "4", "Y", "1", "2", "M", "G", " ">>,
      <<"K", " ", "2", "0", "2", "4", "Y", "0", "5", "M", "G">>,
      <<"K", " ", "2", "0", "2", "5", " ", "Y", " ", "1", " ", "M">>,
      <<"X", " ", "2", "0", "2", "6", "Y", "1", "M", "G">>,
      <<"K">> }

Hrefs == {"/dp/ebook/a", "https://gihyo.jp/dp/ebook/b"}

\* one li element of the listing: its /dp/ebook/ link and its title text node
Entries == [href : Hrefs, text : RawTexts]

Listings == SeqsUpTo(Entries, MaxItems)

RunListings == SeqsUpTo(Entries, RunItems)

\* get_text(" ") without strip=True
GetTextUnstripped(raw) == raw

\* get_text(" ", strip=True) of one text node
GetText(raw) == Strip(raw)

\* KEY in normalize(text)
HasKey(text) == "K" \in Range(text)

\* href if href.startswith("http") else "https://gihyo.jp" + href
Absolute(href) ==
    IF href = "/dp/ebook/a" THEN "https://gihyo.jp/dp/ebook/a" ELSE href

\* the loop over soup.select(...): the (detail, text) pairs appended to found_items
RECURSIVE Matches(_)
Matches(listing) ==
    IF listing = <<>> THEN <<>>
    ELSE LET e    == Head(listing)
             text == GetText(e.text)
         IN  IF text # <<>> /\ HasKey(text)
             THEN <<[detail |-> Absolute(e.href), title |-> text]>> \o Matches(Tail(listing))
             ELSE Matches(Tail(listing))

\* hrefs of the a[href] elements of a page
LinkHrefs == {"/dl/sd.epub", "/dl/sd.epub?t=1", "/dl?format=epub",
              "/dl/sd_epub.zip", "/dl/sd.pdf", "/dp/other"}

LinkSeqs == SeqsUpTo(LinkHrefs, MaxLinks)

EndsWithEpub(h)  == h = "/dl/sd.epub"
HasFormatEpub(h) == h = "/dl?format=epub"
EndsWithZip(h)   == h = "/dl/sd_epub.zip"
HasEpub(h)       == h \in {"/dl/sd.epub", "/dl/sd.epub?t=1", "/dl?format=epub", "/dl/sd_epub.zip"}
HasDotEpub(h)    == h \in {"/dl/sd.epub", "/dl/sd.epub?t=1"}
HasDotPdf(h)     == h = "/dl/sd.pdf"

NoHint == "none"

\* 1. direct link scan of the detail page: the first .epub / format=epub / epub .zip link
RECURSIVE DirectScan(_)
DirectScan(links) ==
    IF links = <<>> THEN NoHint
    ELSE IF EndsWithEpub(Head(links)) \/ HasFormatEpub(Head(links)) THEN Head(links)
    ELSE IF EndsWithZip(Head(links)) /\ HasEpub(Head(links)) THEN Head(links)
    ELSE DirectScan(Tail(links))

\* 2. the loop over the links of the modal, carrying [epub_link, pdf_link]
RECURSIVE ModalLoop(_, _)
ModalLoop(links, acc) ==
    IF links = <<>> THEN acc
    ELSE LET h == Head(links)
         IN  IF HasDotEpub(h) /\ acc.epub_link = NoHint
             THEN ModalLoop(Tail(links), [acc EXCEPT !.epub_link = h])
             ELSE IF HasDotPdf(h) /\ acc.pdf_link = NoHint
             THEN ModalLoop(Tail(links), [acc EXCEPT !.pdf_link = h])
             ELSE ModalLoop(Tail(links), acc)

\* the .epub link if one was found, else the .pdf link
ModalScan(links) ==
    LET found == ModalLoop(links, [epub_link |-> NoHint, pdf_link |-> NoHint])
    IN  IF found.epub_link # NoHint THEN found.epub_link
        ELSE IF found.pdf_link # NoHint THEN found.pdf_link
        ELSE NoHint

-----------------------------------------------------------------------------
(* The two files *)

NoFile == [exists |-> FALSE, text |-> <<>>]

\* a gate that never reports a tag as sent
already_sentNever(m, tag) == FALSE

already_sent(m, tag) == m.exists /\ Strip(m.text) = tag

mark_sent(tag) == [exists |-> TRUE, text |-> tag]

-----------------------------------------------------------------------------
(* login_gihyo: what the page shows after the credentials were submitted *)

LoginPages == [reached : BOOLEAN, mypage : BOOLEAN, failure : BOOLEAN, mypage_late : BOOLEAN]

login_gihyo(page) ==
    IF ~page.reached THEN "raise_other"             \* goto / click / wait_for_selector raised
    ELSE IF page.mypage THEN "success"
    ELSE IF page.failure THEN "raise_failure"
    ELSE IF page.mypage_late THEN "success_delayed"
    ELSE "unconfirmed"

Raised(r) == r \in {"raise_other", "raise_failure"}

-----------------------------------------------------------------------------
(* send_to_kindle's checks *)

MiB == 1048576
CEILING_MB == 25

Suffixes == {".epub", ".EPUB", ".pdf", ".zip"}

Lower(suffix) == IF suffix = ".EPUB" THEN ".epub" ELSE suffix

Sizes == {4 * MiB, CEILING_MB * MiB, CEILING_MB * MiB + 1}

Files == [suffix : Suffixes, size : Sizes]

NoPath == [suffix |-> "", size |-> 0]

\* a ceiling that excludes the limit itself
TooLargeAtLimit(f) == f.size >= CEILING_MB * MiB

\* file_size_mb = st_size / (1024 * 1024) > 25; the division by a power of two is exact
TooLarge(f) == f.size > CEILING_MB * MiB

WrongType(f) == ~(Lower(f.suffix) = ".epub")

\* send_to_kindle: which check raised, or "smtp" when the SMTP session raised, or "sent"
send_to_kindle(f, smtp_ok) ==
    IF TooLarge(f) THEN "send_size"
    ELSE IF WrongType(f) THEN "send_type"
    ELSE IF ~smtp_ok THEN "smtp"
    ELSE "sent"

-----------------------------------------------------------------------------
(* main *)

LoginAttempts == 2

\* a handler that swallows the error of every attempt
retryEvery(attempt) == attempt <= 1

\* a handler that re-raises the error of every attempt
retryNever(attempt) == FALSE

\* except Exception as e: if attempt == 0: ... continue
retry(attempt) == attempt = 0

\* where main goes after login_gihyo returned or raised r in iteration attempt of the loop
after_login(attempt, r) ==
    IF ~Raised(r) THEN "save"
    ELSE IF retry(attempt)
    THEN (IF attempt + 1 < LoginAttempts THEN "login" ELSE "save")
    ELSE "error"

\* a main that goes on to mark_sent whatever send_to_kindle did
after_sendAlways(result) == "mark"

\* where main goes after send_to_kindle returned or raised
after_send(result) == IF result = "sent" THEN "mark" ELSE "error"

Init ==
    /\ marker = NoFile
    /\ storage = FALSE
    /\ lastMarked = <<>>
    /\ pc = "start"
    /\ err = "none"
    /\ marker0 = NoFile
    /\ storage0 = FALSE
    /\ loginLog = <<>>
    /\ base = 1
    /\ discovered = <<>>
    /\ found_items = <<>>
    /\ detail_url = ""
    /\ issue_tag = <<>>
    /\ download_hint = NoHint
    /\ downloaded = FALSE
    /\ epub_path = NoPath
    /\ emailSent = FALSE
    /\ ctxOpen = FALSE
    /\ browserOpen = FALSE

\* new_context, and the test of STORAGE_STATE.exists()
Start ==
    /\ pc = "start"
    /\ ctxOpen' = TRUE
    /\ browserOpen' = TRUE
    /\ pc' = IF storage THEN "discover" ELSE "login"
    /\ UNCHANGED <<marker, storage, lastMarked, err, marker0, storage0, loginLog, base,
                   discovered, found_items, detail_url, issue_tag, download_hint,
                   downloaded, epub_path, emailSent>>

\* one iteration of for attempt in range(2)
Login ==
    /\ pc = "login"
    /\ \E page \in LoginPages :
         LET r  == login_gihyo(page)
             to == after_login(Len(loginLog), r)
         IN  /\ loginLog' = Append(loginLog, r)
             /\ pc' = to
             /\ err' = IF to = "error" THEN "login" ELSE err
    /\ UNCHANGED <<marker, storage, lastMarked, marker0, storage0, base, discovered,
                   found_items, detail_url, issue_tag, download_hint, downloaded,
                   epub_path, emailSent, ctxOpen, browserOpen>>

\* ctx.storage_state(path=...) inside try / except: pass
SaveStorage ==
    /\ pc = "save"
    /\ \E written \in BOOLEAN : storage' = (storage \/ written)
    /\ pc' = "discover"
    /\ UNCHANGED <<marker, lastMarked, err, marker0, storage0, loginLog, base, discovered,
                   found_items, detail_url, issue_tag, download_hint, downloaded,
                   epub_path, emailSent, ctxOpen, browserOpen>>

\* one iteration of for base in my_candidates, then the sort and the selection;
\* listings are the pages the portal can answer with
Discover(listings) ==
    /\ pc = "discover"
    /\ \E loaded \in BOOLEAN, listing \in listings :
         LET found == IF loaded THEN found_items \o Matches(listing) ELSE found_items
         IN  IF found # <<>>
             THEN /\ discovered' = found
                  /\ found_items' = SortItems(found)
                  /\ detail_url' = found_items'[1].detail
                  /\ issue_tag' = found_items'[1].title
                  /\ pc' = "resolve"
                  /\ loginLog' = <<>>
                  /\ UNCHANGED <<base, err>>
             ELSE IF base < 3
             THEN /\ base' = base + 1
                  /\ UNCHANGED <<discovered, found_items, detail_url, issue_tag, pc, err,
                                 loginLog>>
             ELSE /\ pc' = "error"
                  /\ err' = "discover"
                  /\ UNCHANGED <<base, discovered, found_items, detail_url, issue_tag,
                                 loginLog>>
    /\ UNCHANGED <<marker, storage, lastMarked, marker0, storage0, download_hint,
                   downloaded, epub_path, emailSent, ctxOpen, browserOpen>>

TryBase == Discover(RunListings)

\* page.goto(detail_url) and the direct link scan; found_items is not read again
ScanDetail ==
    /\ pc = "resolve"
    /\ \E reached \in BOOLEAN, links \in LinkSeqs :
         IF ~reached
         THEN /\ pc' = "error"
              /\ err' = "resolve"
              /\ UNCHANGED download_hint
         ELSE /\ download_hint' = DirectScan(links)
              /\ pc' = IF download_hint' # NoHint THEN "gate" ELSE "modal"
              /\ UNCHANGED err
    /\ discovered' = <<>>
    /\ found_items' = <<>>
    /\ UNCHANGED <<marker, storage, lastMarked, marker0, storage0, loginLog, base,
                   detail_url, issue_tag, downloaded, epub_path, emailSent, ctxOpen,
                   browserOpen>>

\* the modal fallback; opened is FALSE when no item was found or a call raised
ScanModal ==
    /\ pc = "modal"
    /\ \E opened \in BOOLEAN, links \in LinkSeqs :
         LET hint == IF opened THEN ModalScan(links) ELSE NoHint
         IN  IF hint # NoHint
             THEN /\ download_hint' = hint
                  /\ pc' = "gate"
                  /\ UNCHANGED err
             ELSE /\ pc' = "error"
                  /\ err' = "resolve"
                  /\ UNCHANGED download_hint
    /\ UNCHANGED <<marker, storage, lastMarked, marker0, storage0, loginLog, base,
                   discovered, found_items, detail_url, issue_tag, downloaded, epub_path,
                   emailSent, ctxOpen, browserOpen>>

\* if already_sent(issue_tag)
Gate ==
    /\ pc = "gate"
    /\ pc' = IF already_sent(marker, issue_tag) THEN "close_early" ELSE "download"
    /\ UNCHANGED <<marker, storage, lastMarked, err, marker0, storage0, loginLog, base,
                   discovered, found_items, detail_url, issue_tag, download_hint,
                   downloaded, epub_path, emailSent, ctxOpen, browserOpen>>

ZipMembers == [suffix : {".epub", ".EPUB"}, size : Sizes]

\* download_asset: the captured file, and the first .epub member when it is a .zip
Download ==
    /\ pc = "download"
    /\ downloaded' = TRUE
    /\ \E captured \in BOOLEAN, f \in Files, has_epub \in BOOLEAN, member \in ZipMembers :
         IF ~captured
         THEN /\ pc' = "error"
              /\ err' = "download"
              /\ UNCHANGED epub_path
         ELSE IF Lower(f.suffix) = ".zip" /\ ~has_epub
         THEN /\ pc' = "error"
              /\ err' = "unzip"
              /\ UNCHANGED epub_path
         ELSE /\ epub_path' = IF Lower(f.suffix) = ".zip" THEN member ELSE f
              /\ pc' = "send"
              /\ UNCHANGED err
    /\ UNCHANGED <<marker, storage, lastMarked, marker0, storage0, loginLog, base,
                   discovered, found_items, detail_url, issue_tag, download_hint,
                   emailSent, ctxOpen, browserOpen>>

\* send_to_kindle(epub_path)
Send ==
    /\ pc = "send"
    /\ \E smtp_ok \in BOOLEAN :
         LET result == send_to_kindle(epub_path, smtp_ok)
         IN  /\ pc' = after_send(result)
             /\ emailSent' = (result = "sent")
             /\ err' = IF result = "sent" THEN err ELSE result
             /\ lastMarked' = IF result = "sent" THEN <<>> ELSE lastMarked
    /\ UNCHANGED <<marker, storage, marker0, storage0, loginLog, base, discovered,
                   found_items, detail_url, issue_tag, download_hint, downloaded,
                   epub_path, ctxOpen, browserOpen>>

\* mark_sent(issue_tag); write_text can raise before or after it truncated the file
Mark ==
    /\ pc = "mark"
    /\ \E outcome \in {"written", "open_raised", "write_raised"} :
         /\ marker' = CASE outcome = "written" -> mark_sent(issue_tag)
                        [] outcome = "open_raised" -> marker
                        [] outcome = "write_raised" -> [exists |-> TRUE, text |-> <<>>]
         /\ lastMarked' = IF outcome = "written" THEN issue_tag ELSE lastMarked
         /\ pc' = IF outcome = "written" THEN "close" ELSE "error"
         /\ err' = IF outcome = "written" THEN err ELSE "mark"
    /\ UNCHANGED <<storage, marker0, storage0, loginLog, base, discovered, found_items,
                   detail_url, issue_tag, download_hint, downloaded, epub_path, emailSent,
                   ctxOpen, browserOpen>>

\* ctx.close(); ctx.browser.close() of the early return and of the end of main
Close ==
    /\ pc \in {"close_early", "close"}
    /\ \E outcome \in {"closed", "ctx_raised", "browser_raised"} :
         /\ ctxOpen' = (outcome = "ctx_raised")
         /\ browserOpen' = (outcome # "closed")
         /\ pc' = IF outcome = "closed" THEN "done" ELSE "error"
         /\ err' = IF outcome = "closed" THEN err ELSE "close"
    /\ UNCHANGED <<marker, storage, lastMarked, marker0, storage0, loginLog, base,
                   discovered, found_items, detail_url, issue_tag, download_hint,
                   downloaded, epub_path, emailSent>>

\* the script is started again
NewRun ==
    /\ pc \in {"done", "error"}
    /\ pc' = "start"
    /\ err' = "none"
    /\ marker0' = marker
    /\ storage0' = storage
    /\ loginLog' = <<>>
    /\ base' = 1
    /\ discovered' = <<>>
    /\ found_items' = <<>>
    /\ detail_url' = ""
    /\ issue_tag' = <<>>
    /\ download_hint' = NoHint
    /\ downloaded' = FALSE
    /\ epub_path' = NoPath
    /\ emailSent' = FALSE
    /\ ctxOpen' = FALSE
    /\ browserOpen' = FALSE
    /\ UNCHANGED <<marker, storage, lastMarked>>

Next ==
    \/ Start
    \/ Login
    \/ SaveStorage
    \/ TryBase
    \/ ScanDetail
    \/ ScanModal
    \/ Gate
    \/ Download
    \/ Send
    \/ Mark
    \/ Close
    \/ NewRun

Spec == Init /\ [][Next]_vars

\* the selection alone, over every listing of up to MaxItems entries, in a run that
\* restores a persisted session
InitSelect ==
    /\ marker = NoFile
    /\ storage = TRUE
    /\ lastMarked = <<>>
    /\ pc = "start"
    /\ err = "none"
    /\ marker0 = NoFile
    /\ storage0 = TRUE
    /\ loginLog = <<>>
    /\ base = 1
    /\ discovered = <<>>
    /\ found_items = <<>>
    /\ detail_url = ""
    /\ issue_tag = <<>>
    /\ download_hint = NoHint
    /\ downloaded = FALSE
    /\ epub_path = NoPath
    /\ emailSent = FALSE
    /\ ctxOpen = FALSE
    /\ browserOpen = FALSE

SelectLatest == Discover(Listings)

NextSelect ==
    \/ Start
    \/ SelectLatest

SpecSelect == InitSelect /\ [][NextSelect]_vars

-----------------------------------------------------------------------------
(* Properties *)

Ended == pc \in {"done", "error"}

Failed == {"raise_other", "raise_failure"}

Confirmed == {"success", "success_delayed"}

LastLogin == loginLog[Len(loginLog)]

Written(tag) == [exists |-> TRUE, text |-> tag]

\* C1: the marker changes only in the step after send_to_kindle returned in this run,
\* a mark_sent that returns leaves the run's issue_tag in it, and in no state does the
\* marker differ from its value at the start of the run while no email was sent.
C1_MarkerOnlyAfterSend ==
    [][ /\ marker' # marker =>
             /\ pc = "mark"
             /\ emailSent /\ emailSent'
             /\ (err' = "none" => marker' = Written(issue_tag))
        /\ marker' # marker0' => emailSent' ]_vars

C1_Witness ==
    /\ pc = "done"
    /\ emailSent
    /\ marker # marker0
    /\ marker = Written(issue_tag)

\* C2: a run that has ended either sent the email and left the run's issue_tag in the
\* marker, or sent no email and left the marker as it was at the start of the run.
C2_NoPartialSuccess ==
    Ended => \/ emailSent /\ marker = Written(issue_tag)
             \/ ~emailSent /\ marker = marker0

\* the marker held the selected issue's tag when the run started
AlreadyCase == issue_tag # <<>> /\ marker0 = Written(issue_tag)

\* C3 as claimed: when the marker already equals the latest issue's tag the run
\* downloads nothing, sends nothing, leaves the marker alone and ends normally,
\* whatever links the detail page or the modal offer.
C3_StopsNormallyWhateverLinks ==
    AlreadyCase /\ Ended =>
        /\ ~downloaded
        /\ ~emailSent
        /\ marker = marker0
        /\ pc = "done"

\* C3 amended: when the marker already equals the latest issue's tag the run downloads
\* nothing, sends nothing and leaves the marker alone; the gate is reached only after
\* the resolver returned a link, so the run ends normally exactly when a link was found
\* and the session closed, and with the resolver's error when no link was found.
C3_StopsAfterResolution ==
    AlreadyCase =>
        /\ ~downloaded
        /\ ~emailSent
        /\ marker = marker0
        /\ pc \notin {"download", "send", "mark", "close"}
        /\ err \in {"none", "resolve", "close"}
        /\ Ended => (pc = "done" <=> download_hint # NoHint /\ err # "close")
        /\ Ended /\ download_hint = NoHint => err = "resolve"

C3_Witness ==
    /\ AlreadyCase
    /\ pc = "done"
    /\ download_hint # NoHint
    /\ ~downloaded

\* C4: the gate's step leaves the marker as it is, and from a mark_sent(t) that
\* returned until another issue is delivered, already_sent(t) is true.
C4_DedupConsistent ==
    [][ /\ pc = "gate" => marker' = marker
        /\ lastMarked' # <<>> => already_sent(marker', lastMarked') ]_vars

C4_Witness ==
    /\ pc = "close_early"
    /\ lastMarked = issue_tag
    /\ marker = marker0
    /\ already_sent(marker, issue_tag)

C6_DeliveryPrecondition ==
    /\ emailSent => epub_path.size <= 26214400 /\ epub_path.suffix \in {".epub", ".EPUB"}
    /\ pc = "mark" => emailSent
    /\ err = "send_size" => epub_path.size >= 26214401
    /\ err = "send_type" => epub_path.suffix \notin {".epub", ".EPUB"}
    /\ err \in {"send_size", "send_type"} => ~emailSent /\ marker = marker0 /\ pc = "error"

C6_Witness ==
    /\ emailSent
    /\ epub_path.size = 26214400

\* C7: the selected issue is a discovered candidate whose parsed (year, month) no other
\* candidate exceeds, every candidate discovered before it has another score, and it
\* has no parseable date only if no candidate has one.
C7_LatestSelected ==
    pc = "resolve" =>
        \E i \in 1..Len(discovered) :
            LET best == score_by_issue(discovered[i].title)
            IN  /\ discovered[i] = [detail |-> detail_url, title |-> issue_tag]
                /\ \A j \in 1..Len(discovered) :
                     LET sc == score_by_issue(discovered[j].title)
                     IN  /\ sc[1] < best[1] \/ (sc[1] = best[1] /\ sc[2] <= best[2])
                         /\ j < i => sc # best
                         /\ best = <<0, 0>> => sc = <<0, 0>>

C7_Witness ==
    /\ pc = "resolve"
    /\ Len(discovered) = 3
    /\ score_by_issue(discovered[1].title) = <<0, 0>>
    /\ score_by_issue(discovered[2].title) = <<2024, 12>>
    /\ score_by_issue(discovered[3].title) = <<2024, 12>>
    /\ discovered[2].detail # discovered[3].detail
    /\ detail_url = discovered[2].detail

\* C8: login_gihyo is called only in a run that found no storage.json, at most twice,
\* a second time exactly when the first call raised, and when the second call raised
\* the run has failed with nothing discovered.
C8_LoginAtMostTwice ==
    /\ Len(loginLog) <= 2
    /\ storage0 => loginLog = <<>> /\ pc \notin {"login", "save"}
    /\ ~storage0 /\ pc \in {"save", "discover"} => Len(loginLog) >= 1
    /\ Len(loginLog) = 2 => loginLog[1] \in Failed
    /\ Len(loginLog) = 1 /\ loginLog[1] \in Failed => pc = "login"
    /\ Len(loginLog) = 2 /\ loginLog[2] \in Failed =>
           pc = "error" /\ err = "login" /\ issue_tag = <<>> /\ base = 1

C8_Witness ==
    /\ Len(loginLog) = 2
    /\ loginLog[2] \in Failed
    /\ pc = "error"

\* C9 as claimed: once login_gihyo has seen the failure marker the run has failed, with
\* no further login attempt; when it saw neither marker the run goes on.
C9_FailureMarkerFatalAtOnce ==
    loginLog # <<>> =>
        /\ LastLogin = "raise_failure" => pc = "error" /\ err = "login"
        /\ LastLogin = "unconfirmed" => err # "login"

\* C9 amended: the failure marker seen by the first call is followed by the second
\* call, seen by the second call it fails the run; when a call saw neither marker the
\* run goes on to discovery.
C9_FailureMarkerFatalOnRetry ==
    loginLog # <<>> =>
        /\ Len(loginLog) = 1 /\ LastLogin = "raise_failure" => pc = "login" /\ err = "none"
        /\ Len(loginLog) = 2 /\ LastLogin = "raise_failure" => pc = "error" /\ err = "login"
        /\ LastLogin = "unconfirmed" =>
               \/ pc \in {"save", "discover"} /\ err = "none"
               \/ pc = "error" /\ err = "discover"

C9_Witness ==
    /\ loginLog = <<"raise_failure", "unconfirmed">>
    /\ pc = "discover"

\* C10: storage.json is written only in a run that started without it, and only after
\* a login_gihyo call that saw the success marker.
C10_ArtifactOnlyAfterConfirmedLogin ==
    /\ storage # storage0 => ~storage0 /\ pc \notin {"start", "login"}
    /\ storage # storage0 /\ loginLog # <<>> => LastLogin \in Confirmed

====
